---- MODULE Spec2Model ----
(***************************************************************************)
(* The two search utilities of the repository:                             *)
(*   search_script.py  defines search_files(directory, term) and calls it  *)
(*                     for 'next/document' and for '<Html';                *)
(*   search_deep.py    a module-level os.walk loop over five search terms. *)
(* A file name and a file's text are sequences of one-character strings, a *)
(* directory path is the sequence of directory names below '.', and a file *)
(* path (os.path.join(root, file)) is the record [dir, name].              *)
(***************************************************************************)
EXTENDS Naturals, Sequences, FiniteSets

VARIABLES
    fs,        \* the directory tree: [dirs: set of directory paths, files: set of file paths]
    script,    \* which script this process runs
    pc,        \* position of the process
    calls,     \* number of search_files calls started so far
    term,      \* search_files: parameter term
    matches,   \* search_files: local list matches
    stack,     \* os.walk: directories still to be walked after those of dirs, next first
    root,      \* os.walk: the directory just yielded
    dirs,      \* os.walk: the yielded list dirs (the walk list of root)
    files,     \* os.walk: the yielded files not yet iterated by the for loop
    opens,     \* the paths given to open() during the current scan, in order
    out,       \* the lines printed so far
    returned   \* the value returned by each completed search_files call

vars == <<fs, script, pc, calls, term, matches, stack, root, dirs, files, opens, out, returned>>

\* ---------------------------------------------------------------- bounds
\* the entries (directories and files) below '.', and the search_files calls of one process
MaxEntries == 3
MaxCalls == 3

\* ---------------------------------------------------------------- text
nextdoc == <<"n","e","x","t","/","d","o","c","u","m","e","n","t">>
ltHtml == <<"<","H","t","m","l">>
HtmlSp == <<"H","t","m","l"," ">>
fromSp == <<"f","r","o","m"," ">>
fromDq == fromSp \o <<"\"">> \o nextdoc \o <<"\"">>
fromSq == fromSp \o <<"'">> \o nextdoc \o <<"'">>

search_terms == <<nextdoc, ltHtml, HtmlSp, fromDq, fromSq>>

ignore_dirs == <<"node_modules", ".next", ".git", ".vscode">>

ignore_exts == << <<".","p","n","g">>, <<".","j","p","g">>, <<".","j","p","e","g">>,
                  <<".","g","i","f">>, <<".","i","c","o">>, <<".","s","v","g">>,
                  <<".","w","o","f","f">>, <<".","w","o","f","f","2">>,
                  <<".","t","t","f">>, <<".","e","o","t">>, <<".","m","p","4">>,
                  <<".","w","e","b","m">>, <<".","m","a","p">> >>

source_exts == << <<".","t","s">>, <<".","t","s","x">>, <<".","j","s">>, <<".","j","s","x">> >>

Range(s) == {s[i] : i \in DOMAIN s}

\* str.endswith(suffix)
EndsWith(s, suf) ==
    /\ Len(suf) <= Len(s)
    /\ SubSeq(s, Len(s) - Len(suf) + 1, Len(s)) = suf

\* str.endswith(tuple)
EndsWithAny(s, sufs) == \E i \in DOMAIN sufs : EndsWith(s, sufs[i])

\* str.lower(), over the letters that occur in the texts of the model
LowerChar(c) ==
    CASE c = "H" -> "h"
      [] c = "N" -> "n"
      [] c = "D" -> "d"
      [] OTHER -> c

Lower(s) == [i \in DOMAIN s |-> LowerChar(s[i])]

ContainsIgnoringCase(needle, hay) ==
    \E i \in 1..(Len(hay) + 1) :
        /\ i + Len(needle) - 1 <= Len(hay)
        /\ Lower(SubSeq(hay, i, i + Len(needle) - 1)) = Lower(needle)

\* needle in haystack
Contains(needle, hay) ==
    \E i \in 1..(Len(hay) + 1) :
        /\ i + Len(needle) - 1 <= Len(hay)
        /\ SubSeq(hay, i, i + Len(needle) - 1) = needle

\* ---------------------------------------------------------------- the directory trees
DirNames == {"src", "node_modules", ".next"}

\* file texts
importDoc == <<"x", "\n", "i","m","p","o","r","t"," ","D"," ">> \o fromDq
htmlTag == ltHtml \o <<" ","l","a","n","g",">","\n">> \o nextdoc
lowerOnly == <<"<","h","t","m","l",">","\n","N","e","x","t","/","D","o","c","u","m","e","n","t">>
bothTerms == nextdoc \o <<"\n">> \o ltHtml

\* status: what open() and read() do with the file
\*   ok                  the text is read
\*   OSError             open() raises PermissionError (permission denied) or
\*                       FileNotFoundError (deleted after the directory was listed)
\*   UnicodeDecodeError  read() raises under encoding='utf-8' (strict)
FileKinds ==
    { [name |-> <<"a",".","t","s">>,     text |-> importDoc, status |-> "ok"],
      [name |-> <<"b",".","t","s","x">>, text |-> htmlTag,   status |-> "ok"],
      [name |-> <<"c",".","j","s">>,     text |-> lowerOnly, status |-> "ok"],
      [name |-> <<"d",".","p","n","g">>, text |-> bothTerms, status |-> "ok"],
      [name |-> <<"x",".","p","y">>,     text |-> importDoc, status |-> "ok"],
      [name |-> <<"e",".","j","s","x">>, text |-> bothTerms, status |-> "OSError"],
      [name |-> <<"f",".","t","s">>,     text |-> bothTerms, status |-> "UnicodeDecodeError"] }

Raises(status) ==
    IF status = "OSError" THEN {"PermissionError", "FileNotFoundError"} ELSE {status}

\* the sets of at most k directory paths below '.', closed under parent
RECURSIVE DirSets(_)
DirSets(k) ==
    IF k = 0 THEN {{<<>>}}
    ELSE LET S == DirSets(k - 1)
         IN  S \cup UNION {{T \cup {Append(p, n)} : p \in T, n \in DirNames} : T \in S}

Trees == DirSets(MaxEntries)

RECURSIVE UpTo(_, _)
UpTo(S, k) ==
    IF k = 0 THEN {{}}
    ELSE LET R == UpTo(S, k - 1)
         IN  R \cup {T \cup {x} : T \in R, x \in S}

\* the sets of files that fit in T within MaxEntries; every directory can be listed
FilesIn(T) ==
    UpTo({[dir |-> d, name |-> k.name] : d \in T, k \in FileKinds},
         MaxEntries - (Cardinality(T) - 1))

\* what the file at a path holds, and what open() and read() do with it
Kind(path) == CHOOSE k \in FileKinds : k.name = path.name
Text(path) == Kind(path).text
Status(path) == Kind(path).status

Scripts == {"search_deep.py", "search_script.py"}

\* the two terms search_script.py passes to search_files
CallTerms == {nextdoc, ltHtml}

Init ==
    /\ \E T \in Trees : \E F \in FilesIn(T) : fs = [dirs |-> T, files |-> F]
    /\ script \in Scripts
    /\ pc = "start"
    /\ calls = 0
    /\ term = <<>>
    /\ matches = <<>>
    /\ stack = <<>>
    /\ root = <<>>
    /\ dirs = <<>>
    /\ files = {}
    /\ opens = <<>>
    /\ out = <<>>
    /\ returned = <<>>

\* ---------------------------------------------------------------- os.walk
Perms(S) ==
    {p \in [1..Cardinality(S) -> S] : \A i, j \in DOMAIN p : i # j => p[i] # p[j]}

\* os.scandir(top): the entries of top, directories and non-directories, in any order
SubDirs(top) == {n \in DirNames : Append(top, n) \in fs.dirs}
NonDirs(top) == {f.name : f \in {g \in fs.files : g.dir = top}}

\* list.remove(x): drops the first x
RECURSIVE Remove(_, _)
Remove(l, x) ==
    IF l = <<>> THEN <<>>
    ELSE IF Head(l) = x THEN Tail(l)
    ELSE <<Head(l)>> \o Remove(Tail(l), x)

In(x, l) == x \in Range(l)

\* os.path.join(root, file)
Join(r, f) == [dir |-> r, name |-> f]

\* ---------------------------------------------------------------- search_script.py
PruneNodeModulesOnly(d) ==
    IF In("node_modules", d) THEN Remove(d, "node_modules") ELSE d

Prune(d) ==
    LET d1 == IF In("node_modules", d) THEN Remove(d, "node_modules") ELSE d
    IN  IF In(".next", d1) THEN Remove(d1, ".next") ELSE d1

AdmitsEveryFile(file) == TRUE

ScriptAdmits(file) == EndsWithAny(file, source_exts)

StaleMatches(old) == old

NewMatches(old) == <<>>

ExceptOSError(exc) == exc \in {"PermissionError", "FileNotFoundError"}

ExceptException(exc) == exc \in {"PermissionError", "FileNotFoundError", "UnicodeDecodeError"}

LoadSearchScript ==
    /\ script = "search_script.py"
    /\ pc = "start"
    /\ pc' = "idle"
    /\ UNCHANGED <<fs, script, calls, term, matches, stack, root, dirs, files, opens, out, returned>>

\* os.walk yields top, and the loop body takes the ignored names out of dirs
Yield(top) ==
    /\ root' = top
    /\ \E listed \in Perms(SubDirs(top)) : dirs' = Prune(listed)
    /\ files' = NonDirs(top)

\* os.walk, resumed: the directories left in dirs are walked next, before the others
Pending == [i \in DOMAIN dirs |-> Append(root, dirs[i])] \o stack

\* the call, up to the first directory os.walk yields: directory itself
search_files(t) ==
    /\ pc = "idle"
    /\ calls < MaxCalls
    /\ calls' = calls + 1
    /\ out' = Append(out, [kind |-> "Searching", term |-> t])
    /\ term' = t
    /\ matches' = NewMatches(matches)
    /\ opens' = <<>>
    /\ Yield(<<>>)
    /\ stack' = <<>>
    /\ pc' = "files"
    /\ UNCHANGED <<fs, script, returned>>

\* one iteration of  for file in files; an exception the except clause does not
\* catch ends the process with a traceback
VisitFile ==
    /\ pc = "files"
    /\ \E file \in files :
        /\ files' = files \ {file}
        /\ IF ~ScriptAdmits(file)
           THEN UNCHANGED <<pc, matches, opens, out>>
           ELSE LET path == Join(root, file)
                IN  /\ opens' = Append(opens, path)
                    /\ IF Status(path) = "ok"
                       THEN /\ matches' = IF Contains(term, Text(path))
                                           THEN Append(matches, path)
                                           ELSE matches
                            /\ UNCHANGED <<pc, out>>
                       ELSE \E exc \in Raises(Status(path)) :
                            IF ExceptException(exc)
                            THEN /\ out' = Append(out, [kind |-> "Could not read", path |-> path])
                                 /\ UNCHANGED <<pc, matches>>
                            ELSE /\ pc' = "Traceback"
                                 /\ UNCHANGED <<matches, out>>
    /\ UNCHANGED <<fs, script, calls, term, stack, root, dirs, returned>>

\* the files of root are done: os.walk yields the next directory
NextDir ==
    /\ pc = "files"
    /\ files = {}
    /\ Pending # <<>>
    /\ Yield(Head(Pending))
    /\ stack' = Tail(Pending)
    /\ UNCHANGED <<fs, script, pc, calls, term, matches, opens, out, returned>>

\* os.walk is exhausted: return matches, and the caller prints them
Return ==
    /\ pc = "files"
    /\ files = {}
    /\ Pending = <<>>
    /\ returned' = Append(returned, [term |-> term, matches |-> matches])
    /\ out' = out \o [i \in DOMAIN matches |-> [kind |-> "Found in", path |-> matches[i]]]
    /\ pc' = "idle"
    /\ UNCHANGED <<fs, script, calls, term, matches, stack, root, dirs, files, opens>>

\* ---------------------------------------------------------------- search_deep.py
\* line 14, the extension check: the same allow-list as search_script.py; ignore_exts
\* (line 5) is read nowhere
DeepAdmits(file) == EndsWithAny(file, source_exts)

\* The os.walk loop (line 9) has the body  dirs[:] = ...  (line 11) at one indentation
\* level; line 12 is blank and lines 14-29 are indented one level deeper with no
\* 'for file in files:' header before them.  Python compiles a module before it runs
\* any of it, and rejects this one with IndentationError at line 14: the process ends
\* with nothing printed, nothing walked and nothing opened.
LoadSearchDeep ==
    /\ script = "search_deep.py"
    /\ pc = "start"
    /\ pc' = "IndentationError"
    /\ UNCHANGED <<fs, script, calls, term, matches, stack, root, dirs, files, opens, out, returned>>

Next ==
    \/ LoadSearchScript
    \/ \E t \in CallTerms : search_files(t)
    \/ VisitFile
    \/ NextDir
    \/ Return
    \/ LoadSearchDeep

Spec == Init /\ [][Next]_vars

\* ================================================================ properties
\* the directory names each script takes out of the walk list
ScriptIgnored == {"node_modules", ".next"}
DeepIgnored == Range(ignore_dirs)
Ignored == IF script = "search_deep.py" THEN DeepIgnored ELSE ScriptIgnored

\* the directory path p is an ignored directory or lies below one
Inside(p, ignored) == \E i \in DOMAIN p : p[i] \in ignored

\* the name ends with one of .ts .tsx .js .jsx
HasSourceExt(n) ==
    \E e \in { <<".","t","s">>, <<".","t","s","x">>, <<".","j","s">>, <<".","j","s","x">> } :
        /\ Len(e) <= Len(n)
        /\ \A j \in 1..Len(e) : n[Len(n) - Len(e) + j] = e[j]

SourceNames == {k.name : k \in {x \in FileKinds : HasSourceExt(x.name)}}

\* the positions where t occurs in text, character for character
OccurrencesAt(t, text) ==
    {i \in 1..Len(text) :
        /\ i + Len(t) - 1 <= Len(text)
        /\ \A j \in 1..Len(t) : text[i + j - 1] = t[j]}

\* the search terms that occur in the text of each file name of the model
TermsIn ==
    [n \in {k.name : k \in FileKinds} |->
        {t \in Range(search_terms) : OccurrencesAt(t, (CHOOSE k \in FileKinds : k.name = n).text) # {}}]

\* the term t occurs in the file at path f
Occurs(t, f) == t \in TermsIn[f.name]

\* the 1-based number of the line that holds position i of text
LineOf(i, text) == 1 + Cardinality({j \in 1..(i - 1) : text[j] = "\n"})

Count(seq, x) == Cardinality({i \in DOMAIN seq : seq[i] = x})

\* the paths some printed line or returned list refers to
Reported ==
    {out[i].path : i \in {j \in DOMAIN out : out[j].kind # "Searching"}}
    \cup Range(matches)
    \cup UNION {Range(returned[i].matches) : i \in DOMAIN returned}

\* a search_files call has returned and no other is running
Returned == script = "search_script.py" /\ pc = "idle" /\ calls > 0

\* search_deep.py has ended
DeepEnded == script = "search_deep.py" /\ pc # "start"

\* the files the scan is to inspect
Eligible == {f \in fs.files : ~Inside(f.dir, Ignored) /\ f.name \in SourceNames}

\* C1: no directory named in the running script's ignored set is ever in the walk list
\* once the loop body has pruned it, so the walk never yields such a directory or one
\* below it, no file below it is opened, and no printed line or returned path lies in it.
C1_PrunedNeverEntered ==
    /\ \A i \in DOMAIN opens : ~Inside(opens[i].dir, Ignored)
    /\ \A p \in Reported : ~Inside(p.dir, Ignored)
    /\ \A i \in DOMAIN stack : ~Inside(stack[i], Ignored)
    /\ ~Inside(root, Ignored)
    /\ \A i \in DOMAIN dirs : dirs[i] \notin Ignored

\* a scan has returned that opened a file, while an admitted file containing the term
\* sits below an ignored directory
C1_Witness ==
    /\ Returned
    /\ opens # <<>>
    /\ \E f \in fs.files :
        /\ Inside(f.dir, ScriptIgnored)
        /\ f.name \in SourceNames
        /\ Status(f) = "ok"
        /\ Occurs(term, f)

\* C2: a file whose name does not end with an admitted extension is never opened and
\* never referred to by a printed line or a returned path, whatever it contains.
C2_ExcludedNeverOpened ==
    \A f \in fs.files :
        f.name \notin SourceNames =>
            /\ Count(opens, f) = 0
            /\ f \notin Reported

\* a scan has returned over a tree with a .png file, outside every ignored directory,
\* whose bytes contain the term
C2_Witness ==
    /\ Returned
    /\ \E f \in fs.files :
        /\ ~Inside(f.dir, ScriptIgnored)
        /\ EndsWith(f.name, <<".","p","n","g">>)
        /\ Occurs(term, f)

\* C3 (as claimed): when search_deep.py has ended, every readable file it is to inspect
\* that holds a term exactly once has exactly one MATCH line and exactly one Line line
\* for that term, and the Line line carries the number of the line of the occurrence.
C3_OneMatchOneLine ==
    DeepEnded =>
        \A f \in Eligible : \A k \in DOMAIN search_terms :
            LET T == search_terms[k]
                occ == OccurrencesAt(T, Text(f))
                lines == {i \in DOMAIN out :
                            out[i].kind = "Line" /\ out[i].path = f /\ out[i].term = T}
            IN  (Status(f) = "ok" /\ Cardinality(occ) = 1) =>
                    /\ Count(out, [kind |-> "MATCH", term |-> T, path |-> f]) = 1
                    /\ Cardinality(lines) = 1
                    /\ \A i \in lines : \A o \in occ : out[i].line = LineOf(o, Text(f))

\* C4: a file in which the term does not occur, character for character, is in no
\* matches list, returned list, Found line, MATCH line or Line line of that term.
C4_AbsentTermNoRecord ==
    /\ \A i \in DOMAIN matches : Occurs(term, matches[i])
    /\ \A k \in DOMAIN returned : \A i \in DOMAIN returned[k].matches :
          Occurs(returned[k].term, returned[k].matches[i])
    /\ \A i \in DOMAIN out :
          /\ out[i].kind = "Found in" => \E t \in CallTerms : Occurs(t, out[i].path)
          /\ out[i].kind \in {"MATCH", "Line"} => Occurs(out[i].term, out[i].path)

\* a scan has returned that opened and read a file holding the term only in another
\* letter case, and the file is not in the returned list
C4_Witness ==
    /\ Returned
    /\ \E f \in fs.files :
        /\ Status(f) = "ok"
        /\ Count(opens, f) = 1
        /\ ~Occurs(term, f)
        /\ OccurrencesAt(Lower(term), Lower(Text(f))) # {}
        /\ f \notin Range(returned[Len(returned)].matches)

\* C5 (as claimed): when a scan has ended, every file it is to inspect has been opened
\* exactly once.
C5_EachFileOnce ==
    (Returned \/ DeepEnded) => \A f \in Eligible : Count(opens, f) = 1

\* C6: no failure of open() or read() ends the scan; when search_files has returned,
\* every file it is to inspect was opened exactly once, a file that failed has one
\* Could-not-read line per scan and is not returned, and any other file has no such
\* line and is returned exactly when the term occurs in it.
C6_FailureIsolated ==
    /\ pc # "Traceback"
    /\ Returned =>
        \A f \in Eligible :
            LET errs == Count(out, [kind |-> "Could not read", path |-> f])
                hits == Count(returned[Len(returned)].matches, f)
            IN  /\ Count(opens, f) = 1
                /\ IF Status(f) = "ok"
                   THEN errs = 0 /\ hits = (IF Occurs(term, f) THEN 1 ELSE 0)
                   ELSE errs = calls /\ hits = 0

\* a scan has returned in which a file failed to be read and a file opened after it
\* was read and returned
C6_Witness ==
    /\ Returned
    /\ \E i, j \in DOMAIN opens :
        /\ i < j
        /\ Status(opens[i]) # "ok"
        /\ Status(opens[j]) = "ok"
        /\ opens[j] \in Range(returned[Len(returned)].matches)

\* C7 (as claimed): of every file of the tree, search_script.py admits it exactly when
\* its name ends with a source extension and search_deep.py admits it exactly when its
\* name does not end with an extension of ignore_exts; so a file named x.py is admitted
\* by one script and not by the other.
C7_DifferentPolicies ==
    \A f \in fs.files :
        /\ ScriptAdmits(f.name) <=> EndsWithAny(f.name, source_exts)
        /\ DeepAdmits(f.name) <=> ~EndsWithAny(f.name, ignore_exts)
        /\ f.name = <<"x",".","p","y">> => DeepAdmits(f.name) # ScriptAdmits(f.name)

\* C8: any two search_files calls with the same term return the same set of paths.
C8_Idempotent ==
    \A i, j \in DOMAIN returned :
        returned[i].term = returned[j].term =>
            Range(returned[i].matches) = Range(returned[j].matches)

\* the third call repeats the term of the first, after a call with the other term that
\* returned other paths, and returns the paths of the first in another order
C8_Witness ==
    /\ Len(returned) = 3
    /\ returned[1].term = returned[3].term
    /\ returned[1].term # returned[2].term
    /\ Range(returned[2].matches) # Range(returned[1].matches)
    /\ returned[2].matches # <<>>
    /\ returned[1].matches # returned[3].matches

\* C9 (as claimed): when search_deep.py has ended, every readable file it is to inspect
\* has a MATCH line and a Line line for each term that occurs in it, and the MATCH lines
\* of one file come in the order of search_terms.
C9_RecordPerTerm ==
    DeepEnded =>
        \A f \in Eligible : Status(f) = "ok" =>
            /\ \A k \in DOMAIN search_terms :
                 Occurs(search_terms[k], f) =>
                     /\ \E i \in DOMAIN out :
                          out[i] = [kind |-> "MATCH", term |-> search_terms[k], path |-> f]
                     /\ \E i \in DOMAIN out :
                          /\ out[i].kind = "Line"
                          /\ out[i].term = search_terms[k]
                          /\ out[i].path = f
            /\ \A k1, k2 \in DOMAIN search_terms :
                 (k1 < k2 /\ Occurs(search_terms[k1], f) /\ Occurs(search_terms[k2], f)) =>
                     \E i, j \in DOMAIN out :
                         /\ i < j
                         /\ out[i] = [kind |-> "MATCH", term |-> search_terms[k1], path |-> f]
                         /\ out[j] = [kind |-> "MATCH", term |-> search_terms[k2], path |-> f]

====
